---------------------------- MODULE Spec2Model ----------------------------
(***************************************************************************)
(* A model of SPLINTER's Polynomial (src/src/polynomial.cpp): the degree   *)
(* specification, the coefficient vector owned by the LinearFunction base, *)
(* the monomial basis and its Jacobian, the description string and the     *)
(* save/load glue.                                                         *)
(*                                                                         *)
(* Real numbers are modelled by integers (every sample point has integer   *)
(* coordinates, on which std::pow is exact).  Vectors are 1-indexed        *)
(* sequences: entry j of the C++ vector is entry j+1 here.  `unsigned int` *)
(* is modelled with UIntBits bits instead of 32.                           *)
(***************************************************************************)
EXTENDS Integers, Sequences, FiniteSets, TLC

VARIABLES
    numVariables,   \* LinearFunction::numVariables
    degrees,        \* Polynomial::degrees
    coefficients,   \* LinearFunction::coefficients
    files,          \* the file system: path -> byte stream (NoFile when absent)
    saved,          \* history: path -> the model state save() was called on
    lastOp,         \* the last call made on the model, with its arguments
    result          \* what that call returned or threw

vars == <<numVariables, degrees, coefficients, files, saved, lastOp, result>>

model == <<numVariables, degrees, coefficients>>

-----------------------------------------------------------------------------
(* Bounds of the model *)

MaxVars == 2

MaxDegree == 2

UIntBits == 3

UIntMod == 2 ^ UIntBits

\* unsigned int arithmetic: conversion of an integer to unsigned
ToUnsigned(n) == n % UIntMod

Paths == {"p.poly"}

NoFile == <<-1>>

NoModel == [numVariables |-> -1, degrees |-> <<>>, coefficients |-> <<>>]

\* Degree specifications of the constructed models
DegreeSpecs == UNION {[1..n -> 0..MaxDegree] : n \in 0..MaxVars}

\* Arguments of computeNumBasisFunctions: any unsigned values
WideDegreeSpecs == UNION {[1..n -> 0..(UIntMod - 1)] : n \in 0..MaxVars}

\* Sample points: windows of a cyclic table of coordinates
XTab == <<2, 5, 3, 0, -1>>

PointStarts == {1, 3}

Point(k, n) == [i \in 1..n |-> XTab[((k + i - 2) % Len(XTab)) + 1]]

\* Dimension indices handed to evalDifferentiatedMonomials by a caller
VarArgs == (-2)..(MaxVars + 1)

-----------------------------------------------------------------------------
(* Outcomes of a call *)

None == [kind |-> "none", what |-> "", value |-> <<>>, powersBuilt |-> 0]

Returned(v, n) == [kind |-> "value", what |-> "", value |-> v, powersBuilt |-> n]

Thrown(msg, n) == [kind |-> "throw", what |-> msg, value |-> <<>>, powersBuilt |-> n]

InvalidVariable == "PolynomialApproximant::evalDifferentiatedMonomials: invalid variable."

RowsMismatch == "PolynomialApproximant::evalMonomials: monomials.rows() != numCoefficients."

OutOfRange == "std::out_of_range"

CannotOpenFile == "Serializer: cannot open file"

-----------------------------------------------------------------------------
(* Eigen and the LinearFunction base *)

\* DenseVector::Zero(n)
Zero(n) == [i \in 1..n |-> 0]

\* LinearFunction::getNumCoefficients(): the coefficient count as an unsigned int
getNumCoefficients(coefs) == ToUnsigned(Len(coefs))

\* std::pow(x, j) for an integer-valued x and an unsigned j; pow(0, 0) = 1
RECURSIVE pow(_, _)
pow(x, j) == IF j = 0 THEN 1 ELSE x * pow(x, j - 1)

\* DenseVector::sparseView(): the size and the nonzero entries
sparseView(v) ==
    [rows |-> Len(v),
     nz   |-> [k \in {i \in 1..Len(v) : v[i] # 0} |-> v[k]]]

\* DenseMatrix::sparseView() of a matrix given by its columns
sparseMatrixView(rows, columns) ==
    [rows |-> rows,
     cols |-> Len(columns),
     nz   |-> [rc \in {p \in (1..rows) \X (1..Len(columns)) : columns[p[2]][p[1]] # 0}
                 |-> columns[rc[2]][rc[1]]]]

\* kroneckerProduct(a, b): entry (i, j) of the outer product at (i-1)*|b| + j
kroneckerProduct(a, b) ==
    [k \in 1..(Len(a) * Len(b)) |->
        a[((k - 1) \div Len(b)) + 1] * b[((k - 1) % Len(b)) + 1]]

\* kroneckerProductVectors(powers): the running product, first vector outermost
RECURSIVE kronLoop(_, _, _)
kronLoop(vectors, i, acc) ==
    IF i > Len(vectors) THEN acc
    ELSE kronLoop(vectors, i + 1, kroneckerProduct(acc, vectors[i]))

kroneckerProductVectors(vectors) == kronLoop(vectors, 1, <<1>>)

-----------------------------------------------------------------------------
(* Polynomial::computeNumBasisFunctions *)

\* Variant: the accumulator is multiplied by deg, not by deg + 1
RECURSIVE numMonomialsLoop_noPlusOne(_, _, _)
numMonomialsLoop_noPlusOne(degs, i, numMonomials) ==
    IF i > Len(degs) THEN numMonomials
    ELSE numMonomialsLoop_noPlusOne(degs, i + 1,
            ToUnsigned(numMonomials * ToUnsigned(degs[i])))

RECURSIVE numMonomialsLoop(_, _, _)
numMonomialsLoop(degs, i, numMonomials) ==
    IF i > Len(degs) THEN numMonomials
    ELSE numMonomialsLoop(degs, i + 1,
            ToUnsigned(numMonomials * ToUnsigned(degs[i] + 1)))

computeNumBasisFunctions(degs) == numMonomialsLoop(degs, 1, 1)

-----------------------------------------------------------------------------
(* Constructors: the object each one builds *)

\* Polynomial(std::vector<unsigned int> degrees)
PolynomialDegrees(degs) ==
    [numVariables |-> Len(degs),
     degrees      |-> degs,
     coefficients |-> Zero(computeNumBasisFunctions(degs))]

\* Polynomial(unsigned int numVariables, unsigned int degree)
PolynomialUniform(n, degree) == PolynomialDegrees([i \in 1..n |-> degree])

\* Polynomial(std::vector<unsigned int> degrees, DenseVector coefficients)
PolynomialCoefficients(degs, coefs) ==
    [numVariables |-> Len(degs),
     degrees      |-> degs,
     coefficients |-> coefs]

-----------------------------------------------------------------------------
(* Polynomial::evalBasisFunctions *)

\* Variant: the power loop runs while j < deg, so powi has deg entries
monomialPowers_short(xi, deg) ==
    [j \in 1..deg |-> pow(xi, j - 1)]

\* powi of evalBasisFunctions: entry j is x(i)^j, j = 0..deg
monomialPowers(xi, deg) ==
    [j \in 1..ToUnsigned(deg + 1) |-> pow(xi, j - 1)]

\* Variant: the powers start at x(i)^1
evalBasisFunctions_shifted(x) ==
    LET powers    == [i \in 1..numVariables |->
                         [j \in 1..(degrees[i] + 1) |-> pow(x[i], j)]]
        monomials == kroneckerProductVectors(powers)
    IN  IF Len(monomials) # getNumCoefficients(coefficients)
        THEN Thrown(RowsMismatch, Len(powers))
        ELSE Returned(sparseView(monomials), Len(powers))

\* Variant: only a basis longer than the coefficient count is reported
evalBasisFunctions_lenient(x) ==
    LET powers    == [i \in 1..numVariables |-> monomialPowers(x[i], degrees[i])]
        monomials == kroneckerProductVectors(powers)
    IN  IF Len(monomials) > getNumCoefficients(coefficients)
        THEN Thrown(RowsMismatch, Len(powers))
        ELSE Returned(sparseView(monomials), Len(powers))

evalBasisFunctions(x) ==
    IF numVariables > Len(degrees) THEN Thrown(OutOfRange, Len(degrees))
    ELSE
    LET powers    == [i \in 1..numVariables |-> monomialPowers(x[i], degrees[i])]
        monomials == kroneckerProductVectors(powers)
    IN  IF Len(monomials) # getNumCoefficients(coefficients)
        THEN Thrown(RowsMismatch, Len(powers))
        ELSE Returned(sparseView(monomials), Len(powers))

-----------------------------------------------------------------------------
(* Polynomial::evalDifferentiatedMonomials *)

\* Variant: the factor j of the derivative is dropped
differentiatedPowers_noFactor(xi, deg) ==
    [j \in 1..ToUnsigned(deg + 1) |->
        IF j = 1 THEN 0 ELSE pow(xi, j - 2)]

\* powi of evalDifferentiatedMonomials for i = var: entry 0 stays 0,
\* entry j is j * x(i)^(j-1), j = 1..deg
differentiatedPowers(xi, deg) ==
    [j \in 1..ToUnsigned(deg + 1) |->
        IF j = 1 THEN 0 ELSE (j - 1) * pow(xi, j - 2)]

\* Variant: the guard is var > numVariables
evalDifferentiatedMonomials_offByOne(x, var) ==
    IF var < 0 \/ var > numVariables THEN Thrown(InvalidVariable, 0)
    ELSE
    LET powers == [i \in 1..numVariables |->
                      IF var = i - 1
                      THEN differentiatedPowers(x[i], degrees[i])
                      ELSE monomialPowers(x[i], degrees[i])]
        monomials == kroneckerProductVectors(powers)
    IN  IF Len(monomials) # getNumCoefficients(coefficients)
        THEN Thrown(RowsMismatch, Len(powers))
        ELSE Returned(monomials, Len(powers))

\* var is the unsigned value the parameter holds
evalDifferentiatedMonomials(x, var) ==
    IF var < 0 \/ var >= numVariables THEN Thrown(InvalidVariable, 0)
    ELSE IF numVariables > Len(degrees) THEN Thrown(OutOfRange, Len(degrees))
    ELSE
    LET powers == [i \in 1..numVariables |->
                      IF var = i - 1
                      THEN differentiatedPowers(x[i], degrees[i])
                      ELSE monomialPowers(x[i], degrees[i])]
        monomials == kroneckerProductVectors(powers)
    IN  IF Len(monomials) # getNumCoefficients(coefficients)
        THEN Thrown(RowsMismatch, Len(powers))
        ELSE Returned(monomials, Len(powers))

-----------------------------------------------------------------------------
(* Polynomial::evalBasisFunctionsJacobian *)

\* The loop over var: columns holds the blocks assigned so far; an exception
\* of evalDifferentiatedMonomials leaves the loop
RECURSIVE jacobianLoop(_, _, _)
jacobianLoop(x, var, columns) ==
    IF ~(var < numVariables)
    THEN Returned(sparseMatrixView(getNumCoefficients(coefficients), columns),
                  numVariables * numVariables)
    ELSE LET col == evalDifferentiatedMonomials(x, var)
         IN  IF col.kind = "throw" THEN col
             ELSE jacobianLoop(x, var + 1, Append(columns, col.value))

evalBasisFunctionsJacobian(x) == jacobianLoop(x, 0, <<>>)

-----------------------------------------------------------------------------
(* Polynomial::getDescription *)

Digits == <<"0", "1", "2", "3", "4", "5", "6", "7", "8", "9">>

\* std::to_string of an unsigned value
RECURSIVE to_string(_)
to_string(n) ==
    IF n < 10 THEN Digits[n + 1]
    ELSE to_string(n \div 10) \o Digits[(n % 10) + 1]

\* The loop that compares each degree with the one before it
RECURSIVE equalLoop(_, _)
equalLoop(i, equal) ==
    IF ~(i < Len(degrees)) THEN equal
    ELSE equalLoop(i + 1, equal /\ (degrees[i + 1] = degrees[i]))

\* Variant: ", " is appended after every degree
RECURSIVE listLoop_trailing(_, _)
listLoop_trailing(i, description) ==
    IF ~(i < Len(degrees)) THEN description
    ELSE listLoop_trailing(i + 1,
            (description \o to_string(degrees[i + 1])) \o ", ")

\* The loop that appends the degrees, ", " after all but the last
RECURSIVE listLoop(_, _)
listLoop(i, description) ==
    IF ~(i < Len(degrees)) THEN description
    ELSE listLoop(i + 1,
            (description \o to_string(degrees[i + 1]))
                \o (IF i + 1 < Len(degrees) THEN ", " ELSE ""))

getDescription ==
    LET description == "PolynomialApproximant of degree"
    IN  IF equalLoop(1, TRUE)
        THEN IF Len(degrees) = 0
             THEN Thrown(OutOfRange, 0)
             ELSE Returned((description \o " ") \o to_string(degrees[1]), 0)
        ELSE Returned(listLoop(0, description \o "s (") \o ")", 0)

-----------------------------------------------------------------------------
(* The Serializer: a length-prefixed stream of the object's fields *)

serialize(obj) ==
    <<obj.numVariables, Len(obj.coefficients)>> \o obj.coefficients
        \o <<Len(obj.degrees)>> \o obj.degrees

deserialize(stream) ==
    LET nc == stream[2]
        nd == stream[3 + nc]
    IN  [numVariables |-> stream[1],
         coefficients |-> SubSeq(stream, 3, 2 + nc),
         degrees      |-> SubSeq(stream, 4 + nc, 3 + nc + nd)]

this == [numVariables |-> numVariables, degrees |-> degrees,
         coefficients |-> coefficients]

-----------------------------------------------------------------------------
(* The calls a program makes on a constructed model *)

Call(op, x, var, path) == [op |-> op, x |-> x, var |-> var, path |-> path]

\* Variant: the query resizes the coefficients to the basis it computed
EvalBasisFunctions_resizing ==
    \E k \in PointStarts :
        LET x == Point(k, numVariables)
        IN  /\ lastOp' = Call("evalBasisFunctions", x, 0, "")
            /\ result' = evalBasisFunctions(x)
            /\ coefficients' = Zero(computeNumBasisFunctions(degrees))
            /\ UNCHANGED <<numVariables, degrees, files, saved>>

EvalBasisFunctions ==
    \E k \in PointStarts :
        LET x == Point(k, numVariables)
        IN  /\ lastOp' = Call("evalBasisFunctions", x, 0, "")
            /\ result' = evalBasisFunctions(x)
            /\ UNCHANGED <<model, files, saved>>

EvalDifferentiatedMonomials ==
    \E k \in PointStarts, v \in VarArgs :
        LET x == Point(k, numVariables)
        IN  /\ lastOp' = Call("evalDifferentiatedMonomials", x, v, "")
            /\ result' = evalDifferentiatedMonomials(x, ToUnsigned(v))
            /\ UNCHANGED <<model, files, saved>>

EvalBasisFunctionsJacobian ==
    \E k \in PointStarts :
        LET x == Point(k, numVariables)
        IN  /\ lastOp' = Call("evalBasisFunctionsJacobian", x, 0, "")
            /\ result' = evalBasisFunctionsJacobian(x)
            /\ UNCHANGED <<model, files, saved>>

GetDescription ==
    /\ lastOp' = Call("getDescription", <<>>, 0, "")
    /\ result' = getDescription
    /\ UNCHANGED <<model, files, saved>>

\* Polynomial::save
save(fileName) ==
    /\ files' = [files EXCEPT ![fileName] = serialize(this)]
    /\ saved' = [saved EXCEPT ![fileName] = this]
    /\ lastOp' = Call("save", <<>>, 0, fileName)
    /\ result' = Returned(<<>>, 0)
    /\ UNCHANGED model

\* Variant: the Serializer is built but never deserialized into the object
loadInto_noDeserialize(obj, fileName) ==
    IF files[fileName] = NoFile
    THEN [obj |-> obj, out |-> Thrown(CannotOpenFile, 0)]
    ELSE [obj |-> obj, out |-> Returned(<<>>, 0)]

\* Polynomial::load on the object obj: the Serializer's constructor reads the
\* file and throws when it cannot; deserialize then replaces the object's fields
loadInto(obj, fileName) ==
    IF files[fileName] = NoFile
    THEN [obj |-> obj, out |-> Thrown(CannotOpenFile, 0)]
    ELSE [obj |-> deserialize(files[fileName]), out |-> Returned(<<>>, 0)]

load(fileName) ==
    LET r == loadInto(this, fileName)
    IN  /\ lastOp' = Call("load", <<>>, 0, fileName)
        /\ numVariables' = r.obj.numVariables
        /\ degrees' = r.obj.degrees
        /\ coefficients' = r.obj.coefficients
        /\ result' = r.out
        /\ UNCHANGED <<files, saved>>

\* Polynomial(fileName): LinearFunction(1, DenseVector::Zero(1)) and empty
\* degrees, then load; when load throws no object is built and the model
\* observed stays as it was
PolynomialFile(fileName) ==
    LET base == [numVariables |-> 1, degrees |-> <<>>, coefficients |-> Zero(1)]
        r    == loadInto(base, fileName)
        obj  == IF r.out.kind = "throw" THEN this ELSE r.obj
    IN  /\ lastOp' = Call("Polynomial(fileName)", <<>>, 0, fileName)
        /\ numVariables' = obj.numVariables
        /\ degrees' = obj.degrees
        /\ coefficients' = obj.coefficients
        /\ result' = r.out
        /\ UNCHANGED <<files, saved>>

\* A further model built by Polynomial(numVariables, degree) becomes the one
\* observed; the files stay
ConstructUniform ==
    \E n \in 0..MaxVars, d \in 0..MaxDegree :
        LET obj == PolynomialUniform(n, d)
        IN  /\ lastOp' = Call("Polynomial(numVariables, degree)", <<>>, 0, "")
            /\ numVariables' = obj.numVariables
            /\ degrees' = obj.degrees
            /\ coefficients' = obj.coefficients
            /\ result' = None
            /\ UNCHANGED <<files, saved>>

\* A call of computeNumBasisFunctions on the model's own degrees
ComputeNumBasisFunctions ==
    /\ lastOp' = Call("computeNumBasisFunctions", <<>>, 0, "")
    /\ result' = Returned(computeNumBasisFunctions(degrees), 0)
    /\ UNCHANGED <<model, files, saved>>

Save == \E p \in Paths : save(p)

Load == \E p \in Paths : load(p)

ConstructFromFile == \E p \in Paths : PolynomialFile(p)

-----------------------------------------------------------------------------
(* Construction *)

\* Coefficient vectors handed to the degrees-plus-coefficients constructor:
\* of the basis count, one short, one long, and one long by 2^UIntBits
RECURSIVE Product(_, _)
Product(degs, i) == IF i > Len(degs) THEN 1 ELSE (degs[i] + 1) * Product(degs, i + 1)

CoefficientInputs(degs) ==
    {[i \in 1..n |-> i] :
        n \in {Product(degs, 1) + d : d \in {-1, 0, 1, UIntMod}}}

Constructed(obj, op) ==
    /\ numVariables = obj.numVariables
    /\ degrees = obj.degrees
    /\ coefficients = obj.coefficients
    /\ files = [p \in Paths |-> NoFile]
    /\ saved = [p \in Paths |-> NoModel]
    /\ lastOp = Call(op, <<>>, 0, "")
    /\ result = None

Init ==
    \/ \E n \in 0..MaxVars, d \in 0..MaxDegree :
          Constructed(PolynomialUniform(n, d), "Polynomial(numVariables, degree)")
    \/ \E degs \in DegreeSpecs :
          Constructed(PolynomialDegrees(degs), "Polynomial(degrees)")
    \/ \E degs \in DegreeSpecs : \E coefs \in CoefficientInputs(degs) :
          Constructed(PolynomialCoefficients(degs, coefs),
                      "Polynomial(degrees, coefficients)")

Next ==
    \/ EvalBasisFunctions
    \/ EvalDifferentiatedMonomials
    \/ EvalBasisFunctionsJacobian
    \/ GetDescription
    \/ Save
    \/ Load
    \/ ConstructFromFile
    \/ ConstructUniform

Spec == Init /\ [][Next]_vars

\* computeNumBasisFunctions on models of any unsigned degrees
InitCount ==
    \E degs \in WideDegreeSpecs :
        Constructed(PolynomialDegrees(degs), "Polynomial(degrees)")

SpecCount == InitCount /\ [][ComputeNumBasisFunctions]_vars

-----------------------------------------------------------------------------
(* Vocabulary of the properties *)

\* x^j with x^0 = 1 for every x
Power(x, j) == IF j = 0 THEN 1 ELSE x ^ j

\* The derivative of x^j with respect to x
DPower(x, j) == IF j = 0 THEN 0 ELSE j * Power(x, j - 1)

\* Product over dimensions i..Len(degs) of (degree + 1): the stride of
\* dimension i - 1 in the Kronecker ordering
BasisCount(degs) == Product(degs, 1)

\* Exponent tuples (j_1..j_n) with 0 <= j_i <= d_i
ExponentTuples(degs) ==
    {j \in [1..Len(degs) -> 0..MaxDegree] : \A i \in 1..Len(degs) : j[i] <= degs[i]}

RECURSIVE IndexOf(_, _, _)
IndexOf(degs, j, i) ==
    IF i > Len(degs) THEN 0
    ELSE j[i] * Product(degs, i + 1) + IndexOf(degs, j, i + 1)

\* The monomial of exponent tuple j at x; dimension v (0-based, -1 for none)
\* differentiated
RECURSIVE Monomial(_, _, _, _)
Monomial(x, j, v, i) ==
    IF i > Len(j) THEN 1
    ELSE (IF v = i - 1 THEN DPower(x[i], j[i]) ELSE Power(x[i], j[i]))
            * Monomial(x, j, v, i + 1)

\* Entry k (0-based) of a sparse vector, of a dense vector, of column v of a
\* sparse matrix
SparseEntry(sv, k) == IF (k + 1) \in DOMAIN sv.nz THEN sv.nz[k + 1] ELSE 0

DenseOf(sv) == [k \in 1..sv.rows |-> SparseEntry(sv, k - 1)]

Column(m, v) ==
    [r \in 1..m.rows |-> IF <<r, v + 1>> \in DOMAIN m.nz THEN m.nz[<<r, v + 1>>] ELSE 0]

IsOp(op) == lastOp.op = op

ReturnedValue == result.kind = "value"

Threw(msg) == result = Thrown(msg, result.powersBuilt)

-----------------------------------------------------------------------------
(* C1: in every reachable state the length of the coefficient vector equals *)
(* computeNumBasisFunctions(degrees), the product of (degree_i + 1).        *)
CoefficientCountInvariant ==
    Len(coefficients) = computeNumBasisFunctions(degrees)

(* C2: whenever evalBasisFunctions(x) returns, the vector it returns has    *)
(* computeNumBasisFunctions(degrees) rows; it returns unless the basis      *)
(* count disagrees with getNumCoefficients(), and then it throws the        *)
(* consistency error.                                                       *)
BasisLengthIsBasisCount ==
    IsOp("evalBasisFunctions") =>
        /\ ReturnedValue \/ Threw(RowsMismatch)
        /\ ReturnedValue =>
              /\ result.value.rows = computeNumBasisFunctions(degrees)
              /\ result.value.rows = BasisCount(degrees)
        /\ Threw(RowsMismatch) <=>
              getNumCoefficients(coefficients) # BasisCount(degrees)

BasisLengthWitness ==
    /\ IsOp("evalBasisFunctions")
    /\ ReturnedValue
    /\ degrees = <<1, 2>>
    /\ result.value.rows = 6

(* C3: the vector evalBasisFunctions(x) returns is the Kronecker product of *)
(* the power vectors, last dimension fastest: for every exponent tuple j    *)
(* the entry at index sum_i j_i * prod_{k>i}(d_k+1) is prod_i x_i^(j_i),    *)
(* with x_i^0 = 1 also for x_i = 0.                                         *)
BasisIsKroneckerOfPowers ==
    (IsOp("evalBasisFunctions") /\ ReturnedValue) =>
        /\ \A j \in ExponentTuples(degrees) :
              SparseEntry(result.value, IndexOf(degrees, j, 1))
                  = Monomial(lastOp.x, j, -1, 1)
        /\ (degrees = <<1, 1>> /\ lastOp.x = <<2, 5>>) =>
              DenseOf(result.value) = <<1, 5, 2, 10>>
        /\ (degrees = <<2>> /\ lastOp.x = <<3>>) =>
              DenseOf(result.value) = <<1, 3, 9>>

BasisKroneckerWitness ==
    /\ IsOp("evalBasisFunctions")
    /\ ReturnedValue
    /\ degrees = <<1, 1>>
    /\ lastOp.x = <<2, 5>>

(* C4: column v of evalBasisFunctionsJacobian(x) is                         *)
(* evalDifferentiatedMonomials(x, v): the Kronecker product with dimension  *)
(* v's power vector replaced by (0, 1, 2 x_v, .., d_v x_v^(d_v-1)); a       *)
(* dimension of degree 0 gives an all-zero column.                          *)
JacobianColumnsAreDerivatives ==
    /\ (IsOp("evalBasisFunctionsJacobian") /\ ReturnedValue) =>
          /\ result.value.cols = numVariables
          /\ \A v \in 0..(numVariables - 1) :
                /\ evalDifferentiatedMonomials(lastOp.x, v).kind = "value"
                /\ Column(result.value, v)
                      = evalDifferentiatedMonomials(lastOp.x, v).value
                /\ \A j \in ExponentTuples(degrees) :
                      Column(result.value, v)[IndexOf(degrees, j, 1) + 1]
                          = Monomial(lastOp.x, j, v, 1)
                /\ degrees[v + 1] = 0 =>
                      \A r \in 1..result.value.rows : Column(result.value, v)[r] = 0
          /\ (degrees = <<1, 1>> /\ lastOp.x = <<2, 5>>) =>
                /\ Column(result.value, 0) = <<0, 0, 1, 5>>
                /\ Column(result.value, 1) = <<0, 1, 0, 2>>
          /\ (degrees = <<2>> /\ lastOp.x = <<3>>) =>
                Column(result.value, 0) = <<0, 1, 6>>
    /\ (IsOp("evalDifferentiatedMonomials") /\ ReturnedValue) =>
          \A j \in ExponentTuples(degrees) :
              result.value[IndexOf(degrees, j, 1) + 1]
                  = Monomial(lastOp.x, j, ToUnsigned(lastOp.var), 1)

JacobianWitness ==
    /\ IsOp("evalBasisFunctionsJacobian")
    /\ ReturnedValue
    /\ degrees = <<2, 0>>
    /\ lastOp.x = <<2, 5>>
    /\ Column(result.value, 0) = <<0, 1, 4>>
    /\ Column(result.value, 1) = <<0, 0, 0>>

(* C5: evalDifferentiatedMonomials(x, v) with v negative or v >=            *)
(* numVariables throws "invalid variable" before any power vector is built  *)
(* and returns no vector.                                                   *)
InvalidVariableIsRejected ==
    (IsOp("evalDifferentiatedMonomials")
        /\ (lastOp.var < 0 \/ lastOp.var >= numVariables)) =>
        result = Thrown(InvalidVariable, 0)

InvalidVariableWitness ==
    /\ IsOp("evalDifferentiatedMonomials")
    /\ numVariables = 2
    /\ lastOp.var = numVariables
    /\ result.what = InvalidVariable

(* C6: after a load of a path, through load() or the file-name constructor, *)
(* the model has the degrees, the coefficients and the number of variables  *)
(* of the model that was saved to that path, and so the same basis at every *)
(* sample point.                                                            *)
LoadRestoresSavedModel ==
    ((IsOp("load") \/ IsOp("Polynomial(fileName)")) /\ ReturnedValue) =>
        /\ degrees = saved[lastOp.path].degrees
        /\ coefficients = saved[lastOp.path].coefficients
        /\ numVariables = saved[lastOp.path].numVariables

LoadWitness ==
    /\ IsOp("Polynomial(fileName)")
    /\ ReturnedValue
    /\ degrees = <<1, 2>>
    /\ coefficients = <<1, 2, 3, 4, 5, 6>>

(* C7: getDescription has no side effects and returns "polynomial of       *)
(* degree D" when all degrees equal D, "polynomials of degrees (d0, ..,     *)
(* dn)" otherwise, for every degree specification, the empty one included.  *)
Decimal(n) == IF n < 10 THEN Digits[n + 1] ELSE Digits[(n \div 10) + 1] \o Digits[(n % 10) + 1]

RECURSIVE CommaList(_)
CommaList(degs) ==
    IF Len(degs) = 0 THEN ""
    ELSE IF Len(degs) = 1 THEN Decimal(degs[1])
    ELSE (Decimal(degs[1]) \o ", ") \o CommaList(Tail(degs))

AllEqual(degs) == \A i, k \in 1..Len(degs) : degs[i] = degs[k]

DescriptionAsSpecified ==
    [][lastOp'.op = "getDescription" =>
        /\ model' = model /\ files' = files
        /\ result'.kind = "value"
        /\ AllEqual(degrees) =>
              \E D \in 0..MaxDegree :
                  /\ \A i \in 1..Len(degrees) : degrees[i] = D
                  /\ result'.value = "polynomial of degree " \o Decimal(D)
        /\ ~AllEqual(degrees) =>
              result'.value = ("polynomials of degrees (" \o CommaList(degrees)) \o ")"
    ]_vars

(* C7 as the code has it: the label is "PolynomialApproximant of degree D", *)
(* or "PolynomialApproximant of degrees (d0, .., dn)"; on the empty degree  *)
(* specification getDescription throws std::out_of_range.                   *)
DescriptionAsImplemented ==
    [][lastOp'.op = "getDescription" =>
        /\ model' = model /\ files' = files
        /\ degrees = <<>> => result' = Thrown(OutOfRange, 0)
        /\ degrees # <<>> =>
              /\ result'.kind = "value"
              /\ AllEqual(degrees) =>
                    result'.value = "PolynomialApproximant of degree " \o Decimal(degrees[1])
              /\ ~AllEqual(degrees) =>
                    result'.value =
                        ("PolynomialApproximant of degrees (" \o CommaList(degrees)) \o ")"
    ]_vars

DescriptionWitness ==
    /\ IsOp("getDescription")
    /\ degrees = <<1, 2>>
    /\ result.value = "PolynomialApproximant of degrees (1, 2)"

(* C8: computeNumBasisFunctions returns the product of (degree_i + 1), 1    *)
(* for the empty specification, and on overflow that product reduced modulo *)
(* 2^w.                                                                     *)
BasisCountWraps ==
    IsOp("computeNumBasisFunctions") =>
        /\ ReturnedValue
        /\ result.value = BasisCount(degrees) % UIntMod
        /\ BasisCount(degrees) < UIntMod => result.value = BasisCount(degrees)
        /\ degrees = <<>> => result.value = 1

BasisCountWitness ==
    /\ IsOp("computeNumBasisFunctions")
    /\ degrees = <<2, 2>>
    /\ BasisCount(degrees) >= UIntMod
    /\ result.value = 1

(* C9: a call of evalBasisFunctions or evalDifferentiatedMonomials on a     *)
(* model whose coefficient count differs from the product of (degree_i + 1) *)
(* throws the consistency error and returns no vector.                      *)
MismatchAlwaysThrows ==
    ((IsOp("evalBasisFunctions") \/ IsOp("evalDifferentiatedMonomials"))
        /\ Len(coefficients) # BasisCount(degrees)) =>
        Threw(RowsMismatch)

(* C9 as the code has it: evalBasisFunctions, and                           *)
(* evalDifferentiatedMonomials with a valid dimension index, throw the      *)
(* consistency error when getNumCoefficients() differs from the product of  *)
(* (degree_i + 1); with an invalid index "invalid variable" is thrown       *)
(* first.  No vector is returned either way.                                *)
MismatchThrows ==
    /\ ((IsOp("evalBasisFunctions")
          \/ (IsOp("evalDifferentiatedMonomials")
                /\ lastOp.var >= 0 /\ lastOp.var < numVariables))
        /\ getNumCoefficients(coefficients) # BasisCount(degrees)) =>
          /\ Threw(RowsMismatch)
          /\ result.value = <<>>
    /\ (IsOp("evalDifferentiatedMonomials")
        /\ (lastOp.var < 0 \/ lastOp.var >= numVariables)
        /\ getNumCoefficients(coefficients) # BasisCount(degrees)) =>
          /\ Threw(InvalidVariable)
          /\ result.value = <<>>

MismatchWitness ==
    /\ IsOp("evalBasisFunctions")
    /\ degrees = <<1, 1>>
    /\ Len(coefficients) = 5
    /\ Threw(RowsMismatch)

(* C10: a query step leaves numVariables, degrees and coefficients (and the *)
(* files) as they were and returns what the query gives on that unchanged   *)
(* state; the model changes only in a load or a construction.               *)
QueryOps ==
    {"evalBasisFunctions", "evalDifferentiatedMonomials", "evalBasisFunctionsJacobian"}

QueryAlone(call) ==
    CASE call.op = "evalBasisFunctions" -> evalBasisFunctions(call.x)
      [] call.op = "evalDifferentiatedMonomials" ->
            evalDifferentiatedMonomials(call.x, ToUnsigned(call.var))
      [] call.op = "evalBasisFunctionsJacobian" -> evalBasisFunctionsJacobian(call.x)

-----------------------------------------------------------------------------
=============================================================================
